---- MODULE Spec2Model ----
(***************************************************************************)
(* Model of the local speech-to-text service of src/main.py: the lifespan  *)
(* that loads the faster-whisper model, the /transcribe handler and the    *)
(* /health handler, run by one asyncio event loop.                         *)
(*                                                                         *)
(* A handler is a coroutine: it runs on the event loop without interruption*)
(* from one await to the next.  The only await of transcribe is            *)
(* `await file.read()` (line 61); everything after it, the engine call and *)
(* the consumption of the segment generator included, is synchronous code  *)
(* that keeps the loop.  `loop` names the request that holds the loop.     *)
(***************************************************************************)
EXTENDS Integers, Sequences, FiniteSets, TLC

(* ------------------------------ bounds -------------------------------- *)
\* number of /transcribe requests a behaviour may contain
NReq == 2

Reqs == 1..NReq
\* names the temp directory can hand out; one per request is enough
Paths == 1..NReq

(* --------------------------- characters, text -------------------------- *)
\* str.lower() on the characters file names are built from
LowerChar(c) ==
    CASE c = "W" -> "w"
      [] c = "A" -> "a"
      [] c = "V" -> "v"
      [] OTHER -> c

Lower(s) == [i \in 1..Len(s) |-> LowerChar(s[i])]

\* str.rfind: the last index of c in p, 0 when there is none
RFind(p, c) ==
    LET hits == {i \in 1..Len(p) : p[i] = c}
    IN  IF hits = {} THEN 0 ELSE CHOOSE i \in hits : \A j \in hits : j <= i

\* os.path.splitext(p)[1]: from the last dot of the last path component,
\* unless that component has nothing but dots before it
SplitExt(p) ==
    LET sepIndex == RFind(p, "/")
        dotIndex == RFind(p, ".")
    IN  IF /\ dotIndex > sepIndex
           /\ \E k \in (sepIndex + 1)..(dotIndex - 1) : p[k] # "."
        THEN SubSeq(p, dotIndex, Len(p))
        ELSE <<>>

\* file.filename or ""
FilenameOrEmpty(f) == IF f.given THEN f.name ELSE <<>>

\* line 52
ExtOf(f) == Lower(SplitExt(FilenameOrEmpty(f)))

\* line 14
ALLOWED_EXTENSIONS ==
    { <<".", "w", "a", "v">>, <<".", "w", "e", "b", "m">>, <<".", "m", "p", "3">>,
      <<".", "o", "g", "g">>, <<".", "m", "4", "a">> }

\* the file names requests are sent with: none, empty, allowed extensions in
\* either case, a hidden file, no extension, a foreign extension, a directory
\* with a dot
NoFilename == [given |-> FALSE, name |-> <<>>]
FileNames ==
    { NoFilename } \cup
    { [given |-> TRUE, name |-> n] : n \in
        { <<>>,
          <<"a", ".", "W", "A", "V">>,
          <<"a", ".", "m", "p", "3">>,
          <<".", "w", "a", "v">>,
          <<"a">>,
          <<"a", ".", "x", "y", "z">>,
          <<"a", ".", "w", "a", "v", "/", "a">> } }

\* str.strip() on a segment text
RECURSIVE LStrip(_)
LStrip(s) == IF s # <<>> /\ Head(s) = " " THEN LStrip(Tail(s)) ELSE s

RECURSIVE RStrip(_)
RStrip(s) ==
    IF s # <<>> /\ s[Len(s)] = " " THEN RStrip(SubSeq(s, 1, Len(s) - 1)) ELSE s

Strip(s) == RStrip(LStrip(s))

\* " ".join(parts)
RECURSIVE Join(_)
Join(parts) ==
    IF parts = <<>> THEN <<>>
    ELSE IF Len(parts) = 1 THEN parts[1]
    ELSE parts[1] \o <<" ">> \o Join(Tail(parts))

\* line 88: " ".join(seg.text.strip() for seg in segments)
JoinStripped(segs) == Join([i \in 1..Len(segs) |-> Strip(segs[i])])

\* the segment sequences the engine yields: none, one padded text, two texts
\* with an inner pad
SegmentLists ==
    { <<>>,
      << <<" ", "a", " ">> >>,
      << <<"a", ",">>, <<" ", "b">> >> }


(* ------------------------------ inputs -------------------------------- *)
\* Python's None where a string is expected
None == "None"

\* values of the `language` query parameter (line 42): absent, auto, a case
\* variant of auto, the empty string, a language code
Languages == { None, "auto", "AUTO", "", "hi" }

\* values of the `task` query parameter (line 43)
Tasks == { "transcribe", "translate", "summarize" }

\* configuration read from the environment (lines 12-13)
ModelNames == { "small" }
Devices == { "cpu" }

\* what the engine can raise, and what the file system can
EngineErrors == { "decode failed", "internal fault" }

\* info.language_probability in ten-thousandths; NoProbability is Python's None
NoProbability == 0 - 1
Probabilities == { 8267 }

\* the second value model.transcribe returns: None, or a TranscriptionInfo
\* whose language and probability may each be None
NoInfo == [kind |-> "unset"]
Infos ==
    { [kind |-> "None"] } \cup
    [ kind : {"TranscriptionInfo"},
      language : { None, "hi" },
      language_probability : { NoProbability } \cup Probabilities ]

\* round(x, 2), x in ten-thousandths, the result in hundredths
Round2(x) == (x + 50) \div 100

(* ------------------------------- state -------------------------------- *)
VARIABLES
    MODEL_NAME,      \* line 12
    DEVICE,          \* line 13
    lifespan_pc,     \* Uninitialized, Loading, Ready, Failed
    model,           \* app.state.model
    loop,            \* the request running on the event loop, 0 when it is free
    fs,              \* the temp files that exist
    pc,              \* where each request's handler stands
    filename,        \* file.filename
    ext,             \* line 52
    tmp_name,        \* tmp.name, the file NamedTemporaryFile created; 0 before
    tmp_path,        \* line 63; 0 while unassigned
    task,            \* the task parameter, once read
    language,        \* the language parameter, once read
    transcribe_opts, \* lines 68-84
    engine_path,     \* the path model.transcribe was called with; 0 before
    engine_opts,     \* the options model.transcribe was called with
    calls,           \* how often the request called model.transcribe
    info,            \* line 87
    segments,        \* the segment texts consumed so far
    text,            \* line 88
    exc,             \* the exception caught at line 89
    raised,          \* the exception leaving the try statement of line 86
    response,        \* what the request ended with
    healthPending    \* a /health request was received and is not yet answered

configVars == <<MODEL_NAME, DEVICE>>
engineVars == <<lifespan_pc, model>>
healthVars == <<healthPending>>
uploadVars == <<filename, ext, tmp_name, tmp_path>>
optionsVars == <<task, language, transcribe_opts>>
invocationVars == <<engine_path, engine_opts, calls>>
resultVars == <<info, segments, text, exc, raised>>
vars == <<configVars, engineVars, loop, fs, pc, uploadVars, optionsVars, invocationVars, resultVars,
          response, healthVars>>

NotRead == "<not read>"
NoOpts == [kind |-> "unset"]
NoException == [kind |-> "none"]
NoResponse == [kind |-> "none"]
NoModel == [kind |-> "unset"]

\* raise HTTPException(status_code, detail)
HTTPException(status, detail) ==
    [kind |-> "HTTPException", status |-> status, detail |-> detail]

\* an exception nothing in the handler catches: the framework answers 500
\* "Internal Server Error", without a detail
Unhandled(e) == [kind |-> "unhandled", status |-> 500, exc |-> e]

Init ==
    /\ MODEL_NAME \in ModelNames
    /\ DEVICE \in Devices
    /\ lifespan_pc = "Uninitialized"
    /\ model = NoModel
    /\ loop = 0
    /\ fs = {}
    /\ pc = [r \in Reqs |-> "idle"]
    /\ filename = [r \in Reqs |-> NoFilename]
    /\ ext = [r \in Reqs |-> <<>>]
    /\ tmp_name = [r \in Reqs |-> 0]
    /\ tmp_path = [r \in Reqs |-> 0]
    /\ task = [r \in Reqs |-> NotRead]
    /\ language = [r \in Reqs |-> NotRead]
    /\ transcribe_opts = [r \in Reqs |-> NoOpts]
    /\ engine_path = [r \in Reqs |-> 0]
    /\ engine_opts = [r \in Reqs |-> NoOpts]
    /\ calls = [r \in Reqs |-> 0]
    /\ info = [r \in Reqs |-> NoInfo]
    /\ segments = [r \in Reqs |-> <<>>]
    /\ text = [r \in Reqs |-> <<>>]
    /\ exc = [r \in Reqs |-> ""]
    /\ raised = [r \in Reqs |-> NoException]
    /\ response = [r \in Reqs |-> NoResponse]
    /\ healthPending = FALSE

(* ------------------------------ lifespan ------------------------------ *)
\* line 22
ComputeType(device) == IF device = "cuda" THEN "float16" ELSE "int8"

\* lines 20-22: the lifespan starts and goes on to load the model
StartLoading ==
    /\ lifespan_pc = "Uninitialized"
    /\ lifespan_pc' = "Loading"
    /\ UNCHANGED <<configVars, model, loop, fs, pc, uploadVars, optionsVars, invocationVars,
                   resultVars, response, healthVars>>

\* lines 23-25: WhisperModel(...) returns, the handle is stored and the
\* lifespan yields
LoadModel ==
    /\ lifespan_pc = "Loading"
    /\ model' = [kind |-> "WhisperModel", model_name |-> MODEL_NAME,
                 device |-> DEVICE, compute_type |-> ComputeType(DEVICE)]
    /\ lifespan_pc' = "Ready"
    /\ UNCHANGED <<configVars, loop, fs, pc, uploadVars, optionsVars, invocationVars, resultVars,
                   response, healthVars>>

\* line 23: WhisperModel(...) raises; the lifespan never yields
LoadModelFails ==
    /\ lifespan_pc = "Loading"
    /\ lifespan_pc' = "Failed"
    /\ UNCHANGED <<configVars, model, loop, fs, pc, uploadVars, optionsVars, invocationVars,
                   resultVars, response, healthVars>>

\* the lifespan yields before the model is loaded
ServingEarly == lifespan_pc \in { "Loading", "Ready" }

\* line 25: requests are served once the lifespan has yielded, which is
\* after the model was loaded and stored
Serving == lifespan_pc = "Ready"


(* ---------------------------- /transcribe ----------------------------- *)
\* the request r runs on the event loop
Running(r) == loop = r

\* the rest of the state, for the steps of a request that change only pc
\* and the request's own variables
Frame == <<configVars, engineVars, healthVars>>

\* the handler of the next request starts: it takes the event loop.  Requests
\* are numbered in the order their handlers start.
Arrive(r) ==
    /\ Serving
    /\ loop = 0
    /\ pc[r] = "idle"
    /\ \A q \in Reqs : q < r => pc[q] # "idle"
    /\ \E f \in FileNames : filename' = [filename EXCEPT ![r] = f]
    /\ loop' = r
    /\ pc' = [pc EXCEPT ![r] = "validate"]
    /\ UNCHANGED <<Frame, fs, ext, tmp_name, tmp_path, optionsVars,
                   invocationVars, resultVars, response>>

\* the rejection of line 53 left out
ExtRejectedNever(e) == FALSE

\* line 53
ExtRejected(e) == e \notin ALLOWED_EXTENSIONS

\* lines 52-57
Validate(r) ==
    /\ Running(r)
    /\ pc[r] = "validate"
    /\ LET e == ExtOf(filename[r])
       IN  /\ ext' = [ext EXCEPT ![r] = e]
           /\ IF ExtRejected(e)
              THEN /\ response' = [response EXCEPT ![r] =
                          HTTPException(400, [msg |-> "Unsupported file type",
                                              ext |-> e,
                                              allowed |-> ALLOWED_EXTENSIONS])]
                   /\ pc' = [pc EXCEPT ![r] = "responded"]
              ELSE /\ pc' = [pc EXCEPT ![r] = "create"]
                   /\ UNCHANGED response
    /\ UNCHANGED <<Frame, loop, fs, filename, tmp_name, tmp_path, optionsVars,
                   invocationVars, resultVars>>

\* a name is picked without looking at the files that exist
AnyName == Paths

\* line 60: NamedTemporaryFile creates the file under a name no existing
\* file has (O_EXCL)
FreshNames == Paths \ fs

\* lines 60-61: the temp file is created and stays (delete=False); the
\* handler awaits file.read() and gives up the event loop
CreateTemp(r) ==
    /\ Running(r)
    /\ pc[r] = "create"
    /\ \E p \in FreshNames :
          /\ fs' = fs \cup {p}
          /\ tmp_name' = [tmp_name EXCEPT ![r] = p]
    /\ loop' = 0
    /\ pc' = [pc EXCEPT ![r] = "read"]
    /\ UNCHANGED <<Frame, filename, ext, tmp_path, optionsVars, invocationVars,
                   resultVars, response>>

\* lines 64-65: an Exception raised inside the with statement of line 60
SaveFailed(r, cause) ==
    /\ response' = [response EXCEPT ![r] =
          HTTPException(500, [msg |-> "Failed to save file", cause |-> cause])]
    /\ pc' = [pc EXCEPT ![r] = "responded"]

\* line 60 raises: no file was created
CreateTempFails(r) ==
    /\ Running(r)
    /\ pc[r] = "create"
    /\ SaveFailed(r, "create failed")
    /\ UNCHANGED <<Frame, loop, fs, uploadVars, optionsVars, invocationVars,
                   resultVars>>

\* line 61: file.read() returns; the handler has the event loop again
ReadDone(r) ==
    /\ loop = 0
    /\ pc[r] = "read"
    /\ loop' = r
    /\ pc' = [pc EXCEPT ![r] = "write"]
    /\ UNCHANGED <<Frame, fs, uploadVars, optionsVars, invocationVars, resultVars,
                   response>>

\* line 61 raises: the with statement closes the file, which delete=False
\* leaves in place, and lines 64-65 answer
ReadFails(r) ==
    /\ loop = 0
    /\ pc[r] = "read"
    /\ loop' = r
    /\ SaveFailed(r, "read failed")
    /\ UNCHANGED <<Frame, fs, uploadVars, optionsVars, invocationVars, resultVars>>

\* line 61: the request's task is cancelled while it awaits.  CancelledError
\* is no Exception: line 64 does not catch it and the handler is left with
\* no response.
Cancelled(r) ==
    /\ loop = 0
    /\ pc[r] = "read"
    /\ loop' = r
    /\ response' = [response EXCEPT ![r] = [kind |-> "cancelled"]]
    /\ pc' = [pc EXCEPT ![r] = "responded"]
    /\ UNCHANGED <<Frame, fs, uploadVars, optionsVars, invocationVars, resultVars>>

\* lines 62-63
WriteDone(r) ==
    /\ Running(r)
    /\ pc[r] = "write"
    /\ tmp_path' = [tmp_path EXCEPT ![r] = tmp_name[r]]
    /\ pc' = [pc EXCEPT ![r] = "opts"]
    /\ UNCHANGED <<Frame, loop, fs, filename, ext, tmp_name, optionsVars,
                   invocationVars, resultVars, response>>

\* line 62, or the close at the end of the with statement, raises
WriteFails(r) ==
    /\ Running(r)
    /\ pc[r] = "write"
    /\ SaveFailed(r, "write failed")
    /\ UNCHANGED <<Frame, loop, fs, uploadVars, optionsVars, invocationVars,
                   resultVars>>

\* the task handed through as it came
RawTask(t) == t

\* line 69
EffectiveTask(t) == IF t \in {"transcribe", "translate"} THEN t ELSE "transcribe"

\* "auto" compared without regard to case
LanguageGivenAnyCase(l) == l \notin { None, "", "auto", "AUTO" }

\* line 83: `language and language != "auto"`; None and "" are falsy
LanguageGiven(l) == l # None /\ l # "" /\ l # "auto"

\* lines 68-84
TranscribeOpts(t, l) ==
    IF LanguageGiven(l)
    THEN [task |-> EffectiveTask(t), beam_size |-> 1, best_of |-> 1,
          temperature |-> 0, vad_filter |-> TRUE,
          vad_parameters |-> [min_silence_duration_ms |-> 300,
                              speech_pad_ms |-> 200],
          language |-> l]
    ELSE [task |-> EffectiveTask(t), beam_size |-> 1, best_of |-> 1,
          temperature |-> 0, vad_filter |-> TRUE,
          vad_parameters |-> [min_silence_duration_ms |-> 300,
                              speech_pad_ms |-> 200]]

\* lines 68-84; the two query parameters are read here for the first time
BuildOpts(r) ==
    /\ Running(r)
    /\ pc[r] = "opts"
    /\ \E t \in Tasks, l \in Languages :
          /\ task' = [task EXCEPT ![r] = t]
          /\ language' = [language EXCEPT ![r] = l]
          /\ transcribe_opts' = [transcribe_opts EXCEPT ![r] = TranscribeOpts(t, l)]
    /\ pc' = [pc EXCEPT ![r] = "invoke"]
    /\ UNCHANGED <<Frame, loop, fs, uploadVars, invocationVars, resultVars, response>>


\* the model built anew for the request, with another precision, before the
\* call
InvokeReloads(r) ==
    /\ Running(r)
    /\ pc[r] = "invoke"
    /\ model' = [model EXCEPT !.compute_type = "float16"]
    /\ engine_path' = [engine_path EXCEPT ![r] = tmp_path[r]]
    /\ engine_opts' = [engine_opts EXCEPT ![r] = transcribe_opts[r]]
    /\ calls' = [calls EXCEPT ![r] = @ + 1]
    /\ pc' = [pc EXCEPT ![r] = "transcribing"]
    /\ UNCHANGED <<configVars, lifespan_pc, healthVars, loop, fs, uploadVars,
                   optionsVars, resultVars, response>>

\* the call handed to a worker thread and awaited: the event loop is free
\* while the engine runs
InvokeOffLoop(r) ==
    /\ Running(r)
    /\ pc[r] = "invoke"
    /\ engine_path' = [engine_path EXCEPT ![r] = tmp_path[r]]
    /\ engine_opts' = [engine_opts EXCEPT ![r] = transcribe_opts[r]]
    /\ calls' = [calls EXCEPT ![r] = @ + 1]
    /\ pc' = [pc EXCEPT ![r] = "transcribing"]
    /\ loop' = 0
    /\ UNCHANGED <<Frame, fs, uploadVars, optionsVars, resultVars, response>>

\* line 87: model.transcribe(tmp_path, **transcribe_opts) is entered.  The
\* call is made on the event loop, which the handler keeps until it returns.
Invoke(r) ==
    /\ Running(r)
    /\ pc[r] = "invoke"
    /\ engine_path' = [engine_path EXCEPT ![r] = tmp_path[r]]
    /\ engine_opts' = [engine_opts EXCEPT ![r] = transcribe_opts[r]]
    /\ calls' = [calls EXCEPT ![r] = @ + 1]
    /\ pc' = [pc EXCEPT ![r] = "transcribing"]
    /\ UNCHANGED <<Frame, loop, fs, uploadVars, optionsVars, resultVars, response>>

\* line 87: the engine, which opens the file it was given, returns the
\* segment generator and the info.  The generator is lazy: what it yields is
\* settled as it is consumed.  What the info holds is settled where the
\* handler first reads it, at line 97.
TranscribeReturns(r) ==
    /\ Running(r)
    /\ pc[r] = "transcribing"
    /\ engine_path[r] \in fs
    /\ pc' = [pc EXCEPT ![r] = "segments"]
    /\ UNCHANGED <<Frame, loop, fs, uploadVars, optionsVars, invocationVars,
                   resultVars, response>>

\* line 87 raises
TranscribeRaises(r) ==
    /\ Running(r)
    /\ pc[r] = "transcribing"
    /\ \E e \in EngineErrors : exc' = [exc EXCEPT ![r] = e]
    /\ pc' = [pc EXCEPT ![r] = "except"]
    /\ UNCHANGED <<Frame, loop, fs, uploadVars, optionsVars, invocationVars,
                   info, segments, text, raised, response>>

\* the texts the generator can yield after the segments in `done`
NextTexts(done) ==
    { l[Len(done) + 1] : l \in
        { m \in SegmentLists :
            Len(m) > Len(done) /\ SubSeq(m, 1, Len(done)) = done } }

\* line 88: the generator yields one more segment
NextSegment(r) ==
    /\ Running(r)
    /\ pc[r] = "segments"
    /\ \E t \in NextTexts(segments[r]) :
          segments' = [segments EXCEPT ![r] = Append(@, t)]
    /\ UNCHANGED <<Frame, loop, fs, pc, uploadVars, optionsVars, invocationVars,
                   info, text, exc, raised, response>>

\* line 88: the generator raises while it is consumed
SegmentsRaise(r) ==
    /\ Running(r)
    /\ pc[r] = "segments"
    /\ \E e \in EngineErrors : exc' = [exc EXCEPT ![r] = e]
    /\ pc' = [pc EXCEPT ![r] = "except"]
    /\ UNCHANGED <<Frame, loop, fs, uploadVars, optionsVars, invocationVars,
                   info, segments, text, raised, response>>

\* line 88: the generator is exhausted and the text is joined
SegmentsEnd(r) ==
    /\ Running(r)
    /\ pc[r] = "segments"
    /\ segments[r] \in SegmentLists
    /\ text' = [text EXCEPT ![r] = JoinStripped(segments[r])]
    /\ pc' = [pc EXCEPT ![r] = "finally"]
    /\ UNCHANGED <<Frame, loop, fs, uploadVars, optionsVars, invocationVars,
                   info, segments, exc, raised, response>>

\* the engine call tried again after a failure
ExceptRetries(r) ==
    /\ Running(r)
    /\ pc[r] = "except"
    /\ pc' = [pc EXCEPT ![r] = "invoke"]
    /\ UNCHANGED <<Frame, loop, fs, uploadVars, optionsVars, invocationVars,
                   resultVars, response>>

\* lines 89-90: the HTTPException is raised inside the try statement, so the
\* finally clause runs before it leaves the handler
Except(r) ==
    /\ Running(r)
    /\ pc[r] = "except"
    /\ raised' = [raised EXCEPT ![r] =
          HTTPException(500, [msg |-> "Transcription failed", cause |-> exc[r]])]
    /\ pc' = [pc EXCEPT ![r] = "finally"]
    /\ UNCHANGED <<Frame, loop, fs, uploadVars, optionsVars, invocationVars,
                   info, segments, text, exc, response>>

\* what line 93 leaves of the temp files
Removed(files, path) == files \ {path}

\* lines 91-93: the file is removed if it exists; then the exception raised
\* at line 90, if any, leaves the handler
RemoveTemp(r) ==
    /\ Running(r)
    /\ pc[r] = "finally"
    /\ fs' = IF tmp_path[r] \in fs THEN Removed(fs, tmp_path[r]) ELSE fs
    /\ IF raised[r] = NoException
       THEN /\ pc' = [pc EXCEPT ![r] = "return"]
            /\ UNCHANGED response
       ELSE /\ response' = [response EXCEPT ![r] = raised[r]]
            /\ pc' = [pc EXCEPT ![r] = "responded"]
    /\ UNCHANGED <<Frame, loop, uploadVars, optionsVars, invocationVars,
                   resultVars>>

\* line 93 raises: the OSError replaces the exception of line 90 and nothing
\* catches it
RemoveFails(r) ==
    /\ Running(r)
    /\ pc[r] = "finally"
    /\ tmp_path[r] \in fs
    /\ response' = [response EXCEPT ![r] = Unhandled("OSError")]
    /\ pc' = [pc EXCEPT ![r] = "responded"]
    /\ UNCHANGED <<Frame, loop, fs, uploadVars, optionsVars, invocationVars,
                   resultVars>>

\* lines 95-99: info.language of None is an AttributeError, round(None, 2) a
\* TypeError, and neither is caught
JSONContent(t, i) ==
    IF i.kind = "None" THEN Unhandled("AttributeError")
    ELSE IF i.language_probability = NoProbability THEN Unhandled("TypeError")
    ELSE [kind |-> "JSONResponse", status |-> 200,
          content |-> [text |-> t,
                       detected_language |-> i.language,
                       language_probability |-> Round2(i.language_probability)]]

Return(r) ==
    /\ Running(r)
    /\ pc[r] = "return"
    /\ \E i \in Infos :
          /\ info' = [info EXCEPT ![r] = i]
          /\ response' = [response EXCEPT ![r] = JSONContent(text[r], i)]
    /\ pc' = [pc EXCEPT ![r] = "responded"]
    /\ UNCHANGED <<Frame, loop, fs, uploadVars, optionsVars, invocationVars,
                   segments, text, exc, raised>>

\* the handler has ended (lines 54, 65, 90, 93, 95 or a cancellation): its
\* frame is gone and the event loop is free
Retire(r) ==
    /\ Running(r)
    /\ pc[r] = "responded"
    /\ loop' = 0
    /\ pc' = [pc EXCEPT ![r] = "done"]
    /\ filename' = [filename EXCEPT ![r] = NoFilename]
    /\ ext' = [ext EXCEPT ![r] = <<>>]
    /\ tmp_name' = [tmp_name EXCEPT ![r] = 0]
    /\ tmp_path' = [tmp_path EXCEPT ![r] = 0]
    /\ task' = [task EXCEPT ![r] = NotRead]
    /\ language' = [language EXCEPT ![r] = NotRead]
    /\ transcribe_opts' = [transcribe_opts EXCEPT ![r] = NoOpts]
    /\ engine_path' = [engine_path EXCEPT ![r] = 0]
    /\ engine_opts' = [engine_opts EXCEPT ![r] = NoOpts]
    /\ calls' = [calls EXCEPT ![r] = 0]
    /\ info' = [info EXCEPT ![r] = NoInfo]
    /\ segments' = [segments EXCEPT ![r] = <<>>]
    /\ text' = [text EXCEPT ![r] = <<>>]
    /\ exc' = [exc EXCEPT ![r] = ""]
    /\ raised' = [raised EXCEPT ![r] = NoException]
    /\ response' = [response EXCEPT ![r] = NoResponse]
    /\ UNCHANGED <<Frame, fs>>

(* ------------------------------ /health ------------------------------- *)
\* a client sends GET /health; the request waits for the event loop
HealthArrive ==
    /\ Serving
    /\ ~healthPending
    /\ healthPending' = TRUE
    /\ UNCHANGED <<configVars, engineVars, loop, fs, pc, uploadVars, optionsVars,
                   invocationVars, resultVars, response>>

\* lines 102-105: the handler runs, when the event loop is free, and returns
Health ==
    /\ loop = 0
    /\ healthPending
    /\ healthPending' = FALSE
    /\ UNCHANGED <<configVars, engineVars, loop, fs, pc, uploadVars, optionsVars,
                   invocationVars, resultVars, response>>

(* --------------------------- specification ---------------------------- *)
Next ==
    \/ StartLoading
    \/ LoadModel
    \/ LoadModelFails
    \/ HealthArrive
    \/ Health
    \/ \E r \in Reqs :
          \/ Arrive(r)
          \/ Validate(r)
          \/ CreateTemp(r)
          \/ CreateTempFails(r)
          \/ ReadDone(r)
          \/ ReadFails(r)
          \/ Cancelled(r)
          \/ WriteDone(r)
          \/ WriteFails(r)
          \/ BuildOpts(r)
          \/ Invoke(r)
          \/ TranscribeReturns(r)
          \/ TranscribeRaises(r)
          \/ NextSegment(r)
          \/ SegmentsRaise(r)
          \/ SegmentsEnd(r)
          \/ Except(r)
          \/ RemoveTemp(r)
          \/ RemoveFails(r)
          \/ Return(r)
          \/ Retire(r)

Spec == Init /\ [][Next]_vars


(* ----------------------------- properties ------------------------------ *)
\* the handler of r has started and its frame still exists
InFlight(r) == pc[r] \notin { "idle", "done" }

\* the handler of r has ended with an outcome other than a cancellation
Completed(r) == pc[r] = "responded" /\ response[r].kind # "cancelled"

\* model.transcribe was entered for r and the segments are not yet all consumed
Invoking(r) == pc[r] \in { "transcribing", "segments" }

\* C1 (as stated): once a request's pipeline has completed, with whatever
\* outcome, the temp file created for it no longer exists.
C1_TempFileGoneAfterPipeline ==
    \A r \in Reqs :
        (Completed(r) /\ tmp_name[r] # 0) => tmp_name[r] \notin fs

\* C2: a request whose lower-cased extension is not allowed (a request with
\* no filename included) ends with a 400, and in no state has a temp file
\* been created or the engine been invoked for it; the engine is invoked
\* only for requests whose extension passed validation.
C2_RejectedWithoutSideEffects ==
    \A r \in Reqs :
        /\ (InFlight(r) /\ ExtOf(filename[r]) \notin ALLOWED_EXTENSIONS) =>
              /\ tmp_name[r] = 0
              /\ calls[r] = 0
              /\ pc[r] \in { "validate", "responded" }
              /\ pc[r] = "responded" =>
                    /\ response[r].kind = "HTTPException"
                    /\ response[r].status = 400
        /\ (InFlight(r) /\ ~filename[r].given) =>
              ExtOf(filename[r]) \notin ALLOWED_EXTENSIONS
        /\ calls[r] > 0 =>
              /\ ext[r] \in ALLOWED_EXTENSIONS
              /\ ext[r] = ExtOf(filename[r])

\* C2 witness: a request without a filename has ended with a 400
C2_Witness ==
    \E r \in Reqs :
        /\ pc[r] = "responded"
        /\ ~filename[r].given
        /\ response[r].kind = "HTTPException"
        /\ response[r].status = 400
        /\ tmp_name[r] = 0

\* C3 (as stated): if the engine fails, at the call or while the segments
\* are consumed, the request ends with a 500 whose detail embeds the engine's
\* message, and its temp file has been removed.
C3_EngineFailureMappedAndCleaned ==
    \A r \in Reqs :
        (pc[r] = "responded" /\ exc[r] \in EngineErrors) =>
            /\ response[r].kind = "HTTPException"
            /\ response[r].status = 500
            /\ response[r].detail.cause = exc[r]
            /\ tmp_path[r] \notin fs

\* C4 (as stated): the options passed to the engine have no language field
\* when the parameter is unset or "auto", and for every other value, the
\* empty string included, a language field equal to it.
C4_LanguageVerbatimUnlessAuto ==
    \A r \in Reqs :
        calls[r] > 0 =>
            IF language[r] \in { None, "auto" }
            THEN "language" \notin DOMAIN engine_opts[r]
            ELSE /\ "language" \in DOMAIN engine_opts[r]
                 /\ engine_opts[r].language = language[r]

\* C4 (amended): the options passed to the engine have no language field
\* when the parameter is unset, empty or "auto", and for every other value,
\* case variants of "auto" included, a language field equal to it.
C4_LanguageVerbatimUnlessFalsyOrAuto ==
    \A r \in Reqs :
        calls[r] > 0 =>
            IF language[r] \in { None, "", "auto" }
            THEN "language" \notin DOMAIN engine_opts[r]
            ELSE /\ "language" \in DOMAIN engine_opts[r]
                 /\ engine_opts[r].language = language[r]

\* C4 witness: the engine was called for a request sent with language=AUTO
C4_Witness ==
    \E r \in Reqs :
        /\ pc[r] = "transcribing"
        /\ language[r] = "AUTO"
        /\ "language" \in DOMAIN engine_opts[r]

\* C5: the task passed to the engine is "translate" if the parameter is
\* "translate" and "transcribe" otherwise; the engine never sees another
\* task, and no task value gets the request rejected: once the parameter is
\* read the handler goes on to the engine call.
C5_TaskNormalised ==
    \A r \in Reqs :
        /\ calls[r] > 0 =>
              /\ engine_opts[r].task =
                    IF task[r] = "translate" THEN "translate" ELSE "transcribe"
              /\ engine_opts[r].task \in { "transcribe", "translate" }
        /\ task[r] # NotRead =>
              /\ pc[r] = "invoke" \/ calls[r] = 1
              /\ pc[r] = "responded" =>
                    ~(response[r].kind = "HTTPException" /\ response[r].status = 400)

\* C5 witness: the engine was called for a request sent with task=summarize
C5_Witness ==
    \E r \in Reqs :
        /\ pc[r] = "transcribing"
        /\ task[r] = "summarize"
        /\ engine_opts[r].task = "transcribe"

\* C6 (as stated): when the engine has returned its segments without failure,
\* the response assembled from them is a 200 whose text is the trimmed
\* segment texts joined by single spaces, whatever the info holds.
C6_AssembledWhateverTheInfo ==
    [][ \A r \in Reqs :
          (pc[r] = "return" /\ pc'[r] = "responded") =>
              /\ response'[r].kind = "JSONResponse"
              /\ response'[r].status = 200
              /\ response'[r].content.text = JoinStripped(segments[r]) ]_vars

\* C7 (as stated): every failure of a request's pipeline is classified: a
\* validation failure ends in a 400, a storage or engine failure in a 500,
\* each with a detail; no failure leaves the handler unclassified.
C7_EveryFailureClassified ==
    \A r \in Reqs :
        (Completed(r) /\ response[r].kind # "JSONResponse") =>
            /\ response[r].kind = "HTTPException"
            /\ response[r].status \in { 400, 500 }
            /\ response[r].status = 400 <=> ext[r] \notin ALLOWED_EXTENSIONS

\* C8: the handle moves only Uninitialized -> Loading -> Ready or
\* Loading -> Failed, no step of a request moves it, and no request is
\* served, and the engine never invoked, unless it is Ready.
C8_ServedOnlyWhenReady ==
    /\ [] (\A r \in Reqs :
             /\ InFlight(r) \/ pc[r] = "done" => lifespan_pc = "Ready"
             /\ calls[r] > 0 => model.kind = "WhisperModel")
    /\ [][ lifespan_pc' # lifespan_pc =>
             /\ <<lifespan_pc, lifespan_pc'>> \in
                   { <<"Uninitialized", "Loading">>, <<"Loading", "Ready">>,
                     <<"Loading", "Failed">> }
             /\ pc' = pc ]_vars

\* C8 witness: the engine is being invoked, with the handle Ready
C8_Witness ==
    \E r \in Reqs : Invoking(r) /\ lifespan_pc = "Ready" /\ calls[r] = 1

\* C9 (as stated): while the engine invocation of one request is in
\* progress, a /health request that has arrived can be answered.
C9_HealthProgressDuringInvocation ==
    ((\E r \in Reqs : Invoking(r)) /\ healthPending) => ENABLED Health

\* C10: no two requests in flight hold the same temp file, a request passes
\* its own temp file to the engine, and from its creation to the request's
\* own cleanup or failure the file is there: no other request removes it.
C10_TempFilePrivate ==
    \A r \in Reqs :
        /\ \A q \in Reqs :
              (q # r /\ tmp_name[r] # 0 /\ tmp_name[q] # 0) =>
                  tmp_name[r] # tmp_name[q]
        /\ calls[r] > 0 =>
              /\ engine_path[r] = tmp_name[r]
              /\ engine_path[r] # 0
        /\ pc[r] \in { "read", "write", "opts", "invoke", "transcribing",
                       "segments", "except", "finally" } =>
              tmp_name[r] \in fs

\* C10 witness: one request has removed its own file after the engine call
\* while the file of another, which awaits its upload, is still there
C10_Witness ==
    \E r, q \in Reqs :
        /\ r # q
        /\ pc[r] = "read"
        /\ tmp_name[r] \in fs
        /\ pc[q] = "return"
        /\ tmp_name[q] \notin fs


\* C11: however many requests are in flight, at most one engine invocation
\* is in progress at a time: the invocation runs on the event loop, which
\* the invoking handler holds until its segments are consumed.
C11_InvocationsBounded ==
    Cardinality({ r \in Reqs : Invoking(r) }) <= 1

\* C11 witness: the engine is invoked for one request while another, which
\* has created its temp file and awaits its upload, is in flight
C11_Witness ==
    \E r, q \in Reqs :
        /\ r # q
        /\ Invoking(r)
        /\ pc[q] = "read"


\* C12 (as stated): when a request is cancelled before the engine call has
\* completed, the read and the engine call are abandoned and the temp file
\* created for the request is removed all the same.
C12_CancelledStillCleaned ==
    \A r \in Reqs :
        (pc[r] = "responded" /\ response[r].kind = "cancelled") =>
            /\ calls[r] = 0
            /\ tmp_name[r] # 0 => tmp_name[r] \notin fs


\* C13 (as stated): the temp file is written before the engine is invoked,
\* it is there for as long as the invocation and the consumption of the
\* segments last, it is removed only by the request's own cleanup, after the
\* segments were consumed or a failure has occurred, and it is removed before
\* the request's response is returned.
C13_WrittenKeptRemovedInOrder ==
    [][ \A r \in Reqs :
          /\ calls'[r] > calls[r] =>
                /\ pc[r] = "invoke"
                /\ tmp_path[r] # 0
                /\ tmp_path[r] = tmp_name[r]
                /\ tmp_path[r] \in fs
          /\ pc'[r] \in { "transcribing", "segments" } => tmp_name'[r] \in fs'
          /\ (tmp_name[r] \in fs /\ tmp_name[r] \notin fs') =>
                /\ pc[r] = "finally"
                /\ pc'[r] \in { "return", "responded" }
          /\ (/\ pc[r] # "responded"
              /\ pc'[r] = "responded"
              /\ response'[r].kind # "cancelled"
              /\ tmp_name[r] # 0) =>
                tmp_name[r] \notin fs' ]_vars


\* the order of the handler's stages
Stage(p) ==
    CASE p = "idle" -> 0
      [] p = "validate" -> 1
      [] p = "create" -> 2
      [] p = "read" -> 3
      [] p = "write" -> 4
      [] p = "opts" -> 5
      [] p = "invoke" -> 6
      [] p = "transcribing" -> 7
      [] p = "segments" -> 8
      [] p = "except" -> 9
      [] p = "finally" -> 10
      [] p = "return" -> 11
      [] p = "responded" -> 12
      [] p = "done" -> 13

\* C14: a request invokes the engine at most once, no step takes a handler
\* back to a stage it has left, and after a failure the handler only goes on
\* to its error response: through the except and finally clauses after an
\* engine failure, at once after a validation or storage failure.
C14_NoRetry ==
    [][ \A r \in Reqs :
          /\ calls'[r] <= 1
          /\ pc'[r] # pc[r] => Stage(pc'[r]) > Stage(pc[r])
          /\ exc[r] # "" =>
                /\ pc'[r] \in { "except", "finally", "responded", "done" }
                /\ calls'[r] <= calls[r]
          /\ response[r] # NoResponse => pc'[r] \in { "responded", "done" } ]_vars

\* C14 witness: a request has ended with the 500 of an engine failure after
\* one engine call
C14_Witness ==
    \E r \in Reqs :
        /\ pc[r] = "responded"
        /\ exc[r] \in EngineErrors
        /\ calls[r] = 1
        /\ response[r].kind = "HTTPException"
        /\ response[r].status = 500


\* C15: the handle is assigned once, by the lifespan while it loads, from
\* the configured model name and device and the precision that goes with the
\* device; once it is Ready no step of a /transcribe or /health request, and
\* no other step, changes it or the configuration.
C15_HandleFixedOnceReady ==
    [][ /\ lifespan_pc = "Ready" =>
              /\ lifespan_pc' = "Ready"
              /\ model' = model
              /\ MODEL_NAME' = MODEL_NAME
              /\ DEVICE' = DEVICE
        /\ model' # model =>
              /\ lifespan_pc = "Loading"
              /\ model = NoModel
              /\ model'.kind = "WhisperModel"
              /\ model'.model_name = MODEL_NAME
              /\ model'.device = DEVICE
              /\ model'.compute_type =
                    IF DEVICE = "cuda" THEN "float16" ELSE "int8"
              /\ pc' = pc
              /\ healthPending' = healthPending ]_vars

\* C15 witness: with the handle Ready, a request has run its whole pipeline
\* to a 200 while another has ended in an error
C15_Witness ==
    \E r, q \in Reqs :
        /\ lifespan_pc = "Ready"
        /\ model.kind = "WhisperModel"
        /\ pc[q] = "done"
        /\ pc[r] = "responded"
        /\ response[r].kind = "JSONResponse"

====
